---- MODULE Spec2Model ----
\* A model of agents/feedback_response_agent.py: the feedback-to-reply pipeline
\* (aspect detection, sentiment reduction, template reply, optional paraphrase)
\* and the two lazily created, process-wide model handles.
\*
\* Python strings are TLA+ strings; TLC evaluates Len, Head, Tail, SubSeq and \o
\* on them character by character.  Optional[str] is a sequence of length <= 1:
\* <<>> is None and <<s>> is the string s.
EXTENDS Integers, Sequences, FiniteSets

VARIABLES
    sentiment_pipe,   \* _sentiment_pipe: 0 is None, n > 0 the n-th handle built
    gen_pipe,         \* _gen_pipe: 0 is None, n > 0 the n-th handle built
    classifier,       \* the external classifier: text -> list of (label, score)
    frame,            \* per thread: position in and locals of generate_feedback_response
    stdout,           \* the outputs the print calls of lines 140-143 have emitted
    sent_ctor,        \* history: completed pipeline(...) calls of line 40
    gen_ctor,         \* history: completed pipeline(...) calls of line 53
    gen_calls,        \* history: calls of the generator, line 130
    submitted,        \* history: requests started so far
    ever_enabled,     \* history: some request had use_local_generation = True
    call,             \* function harness: the function applied and its arguments
    ret               \* function harness: <<>> before the call, <<value>> after

vars == <<sentiment_pipe, gen_pipe, classifier, frame, stdout, sent_ctor, gen_ctor,
          gen_calls, submitted, ever_enabled, call, ret>>

pipeVars == <<sentiment_pipe, gen_pipe, classifier, frame, stdout, sent_ctor, gen_ctor,
              gen_calls, submitted, ever_enabled>>

-----------------------------------------------------------------------------
\* Bounds of the model.

\* Longest feedback text of the function harness, in fragments.
MaxFragments == 2
\* Largest max_aspects argument tried.
MaxAspectsArg == 3
\* Requests started in one run of the pipeline.
MaxRequests == 3

-----------------------------------------------------------------------------
\* str methods used by the program.

Min(a, b) == IF a < b THEN a ELSE b
Max(a, b) == IF a > b THEN a ELSE b

\* One character of str.lower(), on the letters the texts use.
LowerChar(c) ==
    CASE c = "A" -> "a" [] c = "B" -> "b" [] c = "C" -> "c" [] c = "D" -> "d"
      [] c = "E" -> "e" [] c = "F" -> "f" [] c = "G" -> "g" [] c = "H" -> "h"
      [] c = "I" -> "i" [] c = "J" -> "j" [] c = "K" -> "k" [] c = "L" -> "l"
      [] c = "M" -> "m" [] c = "N" -> "n" [] c = "O" -> "o" [] c = "P" -> "p"
      [] c = "Q" -> "q" [] c = "R" -> "r" [] c = "S" -> "s" [] c = "T" -> "t"
      [] c = "U" -> "u" [] c = "V" -> "v" [] c = "W" -> "w" [] c = "X" -> "x"
      [] c = "Y" -> "y" [] c = "Z" -> "z" [] OTHER -> c

\* s.lower()
RECURSIVE Lower(_)
Lower(s) == IF s = "" THEN "" ELSE LowerChar(Head(s)) \o Lower(Tail(s))

\* s[i:].startswith(sub), for a position i counted from 1.
OccursAt(sub, s, i) == SubSeq(s, i, i + Len(sub) - 1) = sub

\* sub in s
Contains(sub, s) == \E i \in 1..(Len(s) - Len(sub) + 1) : OccursAt(sub, s, i)

\* s.split(sep, 1)[-1]: what follows the first sep, or all of s without one.
SplitLast(s, sep) ==
    LET occurrences == {i \in 1..(Len(s) - Len(sep) + 1) : OccursAt(sep, s, i)}
    IN IF occurrences = {} THEN s
       ELSE LET first == CHOOSE i \in occurrences : \A k \in occurrences : i <= k
            IN SubSeq(s, first + Len(sep), Len(s))

IsSpace(c) == c \in {" ", "\n", "\t", "\r"}

RECURSIVE LStrip(_)
LStrip(s) == IF s # "" /\ IsSpace(Head(s)) THEN LStrip(Tail(s)) ELSE s

RECURSIVE RStrip(_)
RStrip(s) ==
    IF s # "" /\ IsSpace(SubSeq(s, Len(s), Len(s)))
    THEN RStrip(SubSeq(s, 1, Len(s) - 1))
    ELSE s

\* s.strip()
Strip(s) == RStrip(LStrip(s))

\* sep.join(items)
RECURSIVE Join(_, _)
Join(sep, items) ==
    IF items = <<>> THEN ""
    ELSE IF Len(items) = 1 THEN items[1]
    ELSE items[1] \o sep \o Join(sep, Tail(items))

\* seq[:n], for any integer n.
SliceTo(seq, n) ==
    IF n >= 0 THEN SubSeq(seq, 1, Min(n, Len(seq)))
    ELSE SubSeq(seq, 1, Max(0, Len(seq) + n))

\* Mutant: the test "is not None" in place of the truth value.
Truthy_IsNotNone(opt) == opt # <<>>

\* Truth value of an Optional[str]: None and "" are false.
Truthy(opt) == opt # <<>> /\ opt[1] # ""

-----------------------------------------------------------------------------
\* Aspect and severity configuration.

\* The keys of ASPECT_KEYWORDS in insertion order, the order dict.items() yields.
AspectOrder == <<"food", "service", "ambiance", "price", "delivery">>

ASPECT_KEYWORDS ==
    [food |-> <<"food", "taste", "noodle", "soup", "broth", "dish", "meal", "menu",
                "flavor", "fresh", "cold", "hot">>,
     service |-> <<"service", "staff", "waiter", "server", "slow", "rude", "friendly",
                   "attentive">>,
     ambiance |-> <<"ambience", "atmosphere", "music", "noise", "crowd", "clean",
                    "dirty", "decor", "lighting", "seat">>,
     price |-> <<"price", "cost", "expensive", "cheap", "value", "overpriced", "bill">>,
     delivery |-> <<"delivery", "takeaway", "pickup", "packaging">>]

NEG_STRONG_TERMS ==
    <<"terrible", "awful", "horrible", "worst", "disgusting", "refund", "complaint",
      "unacceptable">>

NO_ASPECT == "no specific aspect"

-----------------------------------------------------------------------------
\* detect_aspects

\* sum(1 for kw in kws if kw in text_l)
Score(kws, text_l) == Cardinality({i \in 1..Len(kws) : Contains(kws[i], text_l)})

\* The loop of lines 73-76: (aspect, score) of the aspects that score, in dict order.
RECURSIVE Hits(_, _)
Hits(text_l, n) ==
    IF n = 0 THEN <<>>
    ELSE LET aspect == AspectOrder[n]
             score == Score(ASPECT_KEYWORDS[aspect], text_l)
         IN IF score > 0
            THEN Append(Hits(text_l, n - 1), <<aspect, score>>)
            ELSE Hits(text_l, n - 1)

\* x put into a list already sorted by score descending, behind its equals.
RECURSIVE InsertDesc(_, _)
InsertDesc(x, sorted) ==
    IF sorted = <<>> THEN <<x>>
    ELSE IF Head(sorted)[2] >= x[2]
         THEN <<Head(sorted)>> \o InsertDesc(x, Tail(sorted))
         ELSE <<x>> \o sorted

\* Mutant: sorted ascending and then reversed, which turns equal scores around.
RECURSIVE InsertAsc(_, _)
InsertAsc(x, sorted) ==
    IF sorted = <<>> THEN <<x>>
    ELSE IF Head(sorted)[2] <= x[2]
         THEN <<Head(sorted)>> \o InsertAsc(x, Tail(sorted))
         ELSE <<x>> \o sorted

RECURSIVE SortByScoreAsc(_)
SortByScoreAsc(hits) ==
    IF hits = <<>> THEN <<>>
    ELSE InsertAsc(hits[Len(hits)], SortByScoreAsc(SubSeq(hits, 1, Len(hits) - 1)))

SortByScore_AscendingReversed(hits) ==
    LET asc == SortByScoreAsc(hits)
    IN [i \in 1..Len(asc) |-> asc[Len(asc) + 1 - i]]

\* hits.sort(key=lambda x: x[1], reverse=True): list.sort is stable, and with
\* reverse=True elements of equal key keep their original order.
RECURSIVE SortByScoreDesc(_)
SortByScoreDesc(hits) ==
    IF hits = <<>> THEN <<>>
    ELSE InsertDesc(hits[Len(hits)], SortByScoreDesc(SubSeq(hits, 1, Len(hits) - 1)))

\* Mutant: the sentinel of lines 79-80 left out.
detect_aspects_NoSentinel(text, max_aspects) ==
    LET top == SliceTo(SortByScoreDesc(Hits(Lower(text), Len(AspectOrder))), max_aspects)
    IN [i \in 1..Len(top) |-> top[i][1]]

detect_aspects(text, max_aspects) ==
    LET text_l == Lower(text)
        hits == SortByScoreDesc(Hits(text_l, Len(AspectOrder)))
        top == SliceTo(hits, max_aspects)
        aspects == [i \in 1..Len(top) |-> top[i][1]]
    IN IF aspects = <<>> THEN <<NO_ASPECT>> ELSE aspects

-----------------------------------------------------------------------------
\* is_strong_negative

\* Mutant: the text is not lowercased.
is_strong_negative_CaseSensitive(text) ==
    \E i \in 1..Len(NEG_STRONG_TERMS) : Contains(NEG_STRONG_TERMS[i], text)

is_strong_negative(text) ==
    LET t == Lower(text)
    IN \E i \in 1..Len(NEG_STRONG_TERMS) : Contains(NEG_STRONG_TERMS[i], t)

-----------------------------------------------------------------------------
\* classify_sentiment, lines 98-99: the reduction of the classifier's scores.

\* max(scores, key=lambda s: s["score"]): the first entry of the largest score.
TopScore(scores) ==
    LET i == CHOOSE j \in 1..Len(scores) :
                 /\ \A k \in 1..Len(scores) : scores[k].score <= scores[j].score
                 /\ \A k \in 1..(j - 1) : scores[k].score < scores[j].score
    IN scores[i]

SentimentResult(scores) ==
    LET top == TopScore(scores)
    IN [label |-> top.label, confidence |-> top.score]

-----------------------------------------------------------------------------
\* build_template_reply

\* The source writes the intensified apology with a typographic apostrophe
\* (U+2019); the module is ASCII and writes it with "'".
build_template_reply(review, sentiment, aspects, customer_name) ==
    LET name_prefix == IF Truthy(customer_name)
                       THEN "Hi " \o customer_name[1] \o ","
                       ELSE "Hi there,"
        aspect_str == Join(", ", aspects)
        apology == IF ~is_strong_negative(review) THEN "We're sorry"
                   ELSE "We're truly sorry"
        body ==
            IF sentiment.label = "positive"
            THEN " thank you for the wonderful feedback! We're thrilled that you enjoyed the "
                 \o aspect_str \o ". Your kind words mean a lot to our team."
            ELSE IF sentiment.label = "neutral"
            THEN " thanks for sharing your thoughts. We will keep your notes about the "
                 \o aspect_str \o " in mind as we improve."
            ELSE " " \o apology \o " that your experience with the " \o aspect_str
                 \o " didn't meet expectations. Your feedback helps us improve."
        closing ==
            IF sentiment.label = "positive" THEN "Warm thanks, SteamNoodles Team"
            ELSE IF sentiment.label = "neutral" THEN "Kind regards, SteamNoodles Team"
            ELSE "Sincerely, SteamNoodles Support"
    IN name_prefix \o body \o "\n\n" \o closing

-----------------------------------------------------------------------------
\* maybe_paraphrase

MARKER == "Paraphrase:"

\* Line 129.
Prompt(reply) ==
    "Paraphrase politely and concisely (2 sentences max). Original: " \o reply
    \o "\n" \o MARKER

\* Line 131, on the generated_text the generator returned.
Paraphrased(out) == Strip(SplitLast(out, MARKER))

-----------------------------------------------------------------------------
\* The pipeline: generate_feedback_response, run by concurrent callers.

Threads == {1, 2}

\* Inputs of the pipeline runs.  The function harness below ranges over many
\* texts, all labels and the absent and empty names; the runs keep to two texts
\* and one name so that three and four concurrent or successive requests can be
\* explored exhaustively.
PipeTexts == {"The Noodle SOUP was cold", "TERRIBLE service, I want a refund"}
PipeNames == {<<"Alice">>}

\* Score lists the classifier may return for a text (scores in thousandths): a
\* clear winner, and a tie between the first two classes.
ScoreLists ==
    {<<[label |-> "negative", score |-> 30], [label |-> "neutral", score |-> 70],
       [label |-> "positive", score |-> 900]>>,
     <<[label |-> "negative", score |-> 450], [label |-> "neutral", score |-> 450],
       [label |-> "positive", score |-> 100]>>}

\* The classifiers of the pipeline runs: deterministic, each text has its scores,
\* and the two texts are told apart.
Classifiers ==
    {c \in [PipeTexts -> ScoreLists] :
        \A a, b \in PipeTexts : a # b => c[a] # c[b]}

\* generated_text values the generator may return for a prompt: the prompt echoed
\* and continued, or a bare completion of nothing but white space.
GenOutputs(prompt) == {prompt \o " Thank you so much!\n", "\n \n"}

\* The locals of a thread that is not inside generate_feedback_response.
NoFrame ==
    [pc |-> "idle", review_text |-> "", customer_name |-> <<>>,
     use_local_generation |-> FALSE, pipe |-> 0, sent |-> <<>>, aspects |-> <<>>,
     reply_base |-> <<>>, gen |-> 0, out |-> <<>>, reply_final |-> <<>>]

\* The module as imported: both handles None (lines 33-34), nothing running.
Imported ==
    /\ sentiment_pipe = 0
    /\ gen_pipe = 0
    /\ frame = [t \in Threads |-> NoFrame]
    /\ stdout = {}
    /\ sent_ctor = 0
    /\ gen_ctor = 0
    /\ gen_calls = 0
    /\ submitted = 0
    /\ ever_enabled = FALSE

Init ==
    /\ Imported
    /\ classifier \in Classifiers
    /\ call = [fn |-> "none"]
    /\ ret = <<>>

\* Default of max_aspects, line 70.
DEFAULT_MAX_ASPECTS == 2

Goto(t, label) == frame' = [frame EXCEPT ![t].pc = label]

\* The frame of a thread whose call has ended: its locals are gone.
Ended(t, how) == frame' = [frame EXCEPT ![t] = [NoFrame EXCEPT !.pc = how]]

\* A caller starts generate_feedback_response(review_text, customer_name,
\* use_local_generation), line 135.
Submit(t, review_text, customer_name, use_local_generation) ==
    /\ frame[t].pc \in {"idle", "raised"}
    /\ submitted < MaxRequests
    /\ frame' = [frame EXCEPT ![t] =
                    [NoFrame EXCEPT !.pc = "gsp_check",
                                    !.review_text = review_text,
                                    !.customer_name = customer_name,
                                    !.use_local_generation = use_local_generation]]
    /\ submitted' = submitted + 1
    /\ ever_enabled' = (ever_enabled \/ use_local_generation)
    /\ UNCHANGED <<sentiment_pipe, gen_pipe, classifier, stdout, sent_ctor, gen_ctor,
                   gen_calls, call, ret>>

\* An exception leaves generate_feedback_response: nothing catches it, so the
\* statements after the raising one do not run.
Raise(t) ==
    /\ Ended(t, "raised")
    /\ UNCHANGED <<sentiment_pipe, gen_pipe, classifier, stdout, sent_ctor, gen_ctor,
                   submitted, ever_enabled, call, ret>>

\* get_sentiment_pipe, line 39: the test of the global.
GspCheck(t) ==
    /\ frame[t].pc = "gsp_check"
    /\ Goto(t, IF sentiment_pipe = 0 THEN "gsp_construct" ELSE "gsp_return")
    /\ UNCHANGED <<sentiment_pipe, gen_pipe, classifier, stdout, sent_ctor, gen_ctor,
                   gen_calls, submitted, ever_enabled, call, ret>>

\* get_sentiment_pipe, lines 40-46: pipeline(...) builds a handle and the global
\* is set to it.
GspConstruct(t) ==
    /\ frame[t].pc = "gsp_construct"
    /\ sent_ctor' = sent_ctor + 1
    /\ sentiment_pipe' = sent_ctor + 1
    /\ Goto(t, "gsp_return")
    /\ UNCHANGED <<gen_pipe, classifier, stdout, gen_ctor, gen_calls, submitted,
                   ever_enabled, call, ret>>

\* get_sentiment_pipe, lines 40-46: pipeline(...) raises.
GspConstructRaises(t) ==
    /\ frame[t].pc = "gsp_construct"
    /\ Raise(t)
    /\ UNCHANGED gen_calls

\* get_sentiment_pipe, line 47: the global is read again and returned.
GspReturn(t) ==
    /\ frame[t].pc = "gsp_return"
    /\ frame' = [frame EXCEPT ![t].pipe = sentiment_pipe, ![t].pc = "classify"]
    /\ UNCHANGED <<sentiment_pipe, gen_pipe, classifier, stdout, sent_ctor, gen_ctor,
                   gen_calls, submitted, ever_enabled, call, ret>>

\* classify_sentiment, lines 97-99: the classifier is called and its scores reduced.
Classify(t) ==
    /\ frame[t].pc = "classify"
    /\ frame' = [frame EXCEPT
                    ![t].sent = <<SentimentResult(classifier[frame[t].review_text])>>,
                    ![t].pc = "compose"]
    /\ UNCHANGED <<sentiment_pipe, gen_pipe, classifier, stdout, sent_ctor, gen_ctor,
                   gen_calls, submitted, ever_enabled, call, ret>>

\* Mutant: the exception is caught and a neutral sentiment made up.
ClassifyRaises_FallsBackToNeutral(t) ==
    /\ frame[t].pc = "classify"
    /\ frame' = [frame EXCEPT ![t].sent = <<[label |-> "neutral", confidence |-> 0]>>,
                              ![t].pc = "compose"]
    /\ UNCHANGED <<sentiment_pipe, gen_pipe, classifier, stdout, sent_ctor, gen_ctor,
                   gen_calls, submitted, ever_enabled, call, ret>>

\* classify_sentiment, line 97: the classifier raises.
ClassifyRaises(t) ==
    /\ frame[t].pc = "classify"
    /\ Raise(t)
    /\ UNCHANGED gen_calls

\* Lines 137-139 with maybe_paraphrase's test of lines 126-127, for the sentiment
\* and the flag given: the aspects and the template reply are local values, and
\* without generation the reply is final.
ComposeWith(t, sent, enable_generation) ==
    /\ frame[t].pc = "compose"
    /\ \E aspects \in {detect_aspects(frame[t].review_text, DEFAULT_MAX_ASPECTS)} :
       \E reply_base \in {build_template_reply(frame[t].review_text, sent, aspects,
                                               frame[t].customer_name)} :
          IF ~enable_generation
          THEN frame' = [frame EXCEPT ![t].aspects = aspects,
                                      ![t].reply_base = <<reply_base>>,
                                      ![t].reply_final = <<reply_base>>,
                                      ![t].pc = "print"]
          ELSE frame' = [frame EXCEPT ![t].aspects = aspects,
                                      ![t].reply_base = <<reply_base>>,
                                      ![t].pc = "ggp_check"]
    /\ UNCHANGED <<sentiment_pipe, gen_pipe, classifier, stdout, sent_ctor, gen_ctor,
                   gen_calls, submitted, ever_enabled, call, ret>>

\* Mutant: maybe_paraphrase without the test of its flag.
Compose_IgnoresFlag(t) == ComposeWith(t, frame[t].sent[1], TRUE)

\* Mutant: the sentiment kept in a module global that every request writes, so a
\* request may read the one another request has stored.
Compose_SharedSentiment(t) ==
    \E u \in Threads :
        /\ frame[u].sent # <<>>
        /\ ComposeWith(t, frame[u].sent[1], frame[t].use_local_generation)

\* Lines 137-139: the request's own sentiment and flag.
Compose(t) == ComposeWith(t, frame[t].sent[1], frame[t].use_local_generation)

\* get_gen_pipe, line 52.
GgpCheck(t) ==
    /\ frame[t].pc = "ggp_check"
    /\ Goto(t, IF gen_pipe = 0 THEN "ggp_construct" ELSE "ggp_return")
    /\ UNCHANGED <<sentiment_pipe, gen_pipe, classifier, stdout, sent_ctor, gen_ctor,
                   gen_calls, submitted, ever_enabled, call, ret>>

\* get_gen_pipe, line 53.
GgpConstruct(t) ==
    /\ frame[t].pc = "ggp_construct"
    /\ gen_ctor' = gen_ctor + 1
    /\ gen_pipe' = gen_ctor + 1
    /\ Goto(t, "ggp_return")
    /\ UNCHANGED <<sentiment_pipe, classifier, stdout, sent_ctor, gen_calls, submitted,
                   ever_enabled, call, ret>>

\* get_gen_pipe, line 53: pipeline(...) raises.
GgpConstructRaises(t) ==
    /\ frame[t].pc = "ggp_construct"
    /\ Raise(t)
    /\ UNCHANGED gen_calls

\* get_gen_pipe, line 54.
GgpReturn(t) ==
    /\ frame[t].pc = "ggp_return"
    /\ frame' = [frame EXCEPT ![t].gen = gen_pipe, ![t].pc = "generate"]
    /\ UNCHANGED <<sentiment_pipe, gen_pipe, classifier, stdout, sent_ctor, gen_ctor,
                   gen_calls, submitted, ever_enabled, call, ret>>

\* maybe_paraphrase, lines 129-132: the generator is called on the prompt and the
\* text after the marker is kept.
Generate(t) ==
    /\ frame[t].pc = "generate"
    /\ \E out \in GenOutputs(Prompt(frame[t].reply_base[1])) :
          frame' = [frame EXCEPT ![t].out = <<out>>,
                                 ![t].reply_final = <<Paraphrased(out)>>,
                                 ![t].pc = "print"]
    /\ gen_calls' = gen_calls + 1
    /\ UNCHANGED <<sentiment_pipe, gen_pipe, classifier, stdout, sent_ctor, gen_ctor,
                   submitted, ever_enabled, call, ret>>

\* maybe_paraphrase, line 130: the generator raises.
GenerateRaises(t) ==
    /\ frame[t].pc = "generate"
    /\ Raise(t)
    /\ gen_calls' = gen_calls + 1

\* Lines 140-143, and the return.
Report(t) ==
    /\ frame[t].pc = "print"
    /\ stdout' = stdout \cup
                       {[review_text |-> frame[t].review_text,
                         customer_name |-> frame[t].customer_name,
                         use_local_generation |-> frame[t].use_local_generation,
                         label |-> frame[t].sent[1].label,
                         confidence |-> frame[t].sent[1].confidence,
                         reply |-> frame[t].reply_final[1]]}
    /\ Ended(t, "idle")
    /\ UNCHANGED <<sentiment_pipe, gen_pipe, classifier, sent_ctor, gen_ctor, gen_calls,
                   submitted, ever_enabled, call, ret>>

Next ==
    \/ \E t \in Threads, review_text \in PipeTexts, customer_name \in PipeNames,
          use_local_generation \in BOOLEAN :
          Submit(t, review_text, customer_name, use_local_generation)
    \/ \E t \in Threads : GspCheck(t)
    \/ \E t \in Threads : GspConstruct(t)
    \/ \E t \in Threads : GspConstructRaises(t)
    \/ \E t \in Threads : GspReturn(t)
    \/ \E t \in Threads : Classify(t)
    \/ \E t \in Threads : ClassifyRaises(t)
    \/ \E t \in Threads : Compose(t)
    \/ \E t \in Threads : GgpCheck(t)
    \/ \E t \in Threads : GgpConstruct(t)
    \/ \E t \in Threads : GgpConstructRaises(t)
    \/ \E t \in Threads : GgpReturn(t)
    \/ \E t \in Threads : Generate(t)
    \/ \E t \in Threads : GenerateRaises(t)
    \/ \E t \in Threads : Report(t)

Spec == Init /\ [][Next]_vars

-----------------------------------------------------------------------------
\* The function harness: one function of the program applied to arguments drawn
\* from bounded sets.

\* Pieces of feedback; a text is up to MaxFragments of them joined by blanks.
Fragments ==
    {"The Noodle SOUP was cold", "rude staff and overpriced", "slow delivery, loud music",
     "nice photo", "TERRIBLE overpriced bill", "I want a Refund", "thanks"}

RECURSIVE TextsOf(_)
TextsOf(n) ==
    IF n = 0 THEN {""}
    ELSE TextsOf(n - 1) \cup Fragments
         \cup {t \o " " \o f : t \in TextsOf(n - 1) \ {""}, f \in Fragments}

FnTexts == TextsOf(MaxFragments)
FnLabels == {"positive", "neutral", "negative", "LABEL_1"}
FnNames == {<<>>, <<"">>, <<"Alice">>}
FnAspects == {<<>>, <<"food">>, <<"service", "food">>, <<NO_ASPECT>>}

DetectCalls ==
    {[fn |-> "detect_aspects", text |-> t, max_aspects |-> m] :
        t \in FnTexts, m \in (-1)..MaxAspectsArg}
StrongCalls == {[fn |-> "is_strong_negative", text |-> t] : t \in FnTexts}
BuildCalls ==
    {[fn |-> "build_template_reply", review |-> t,
      sentiment |-> [label |-> l, confidence |-> 900], aspects |-> a,
      customer_name |-> n] :
        t \in FnTexts, l \in FnLabels, a \in FnAspects, n \in FnNames}
FnInit ==
    /\ Imported
    /\ classifier = CHOOSE c \in Classifiers : TRUE
    /\ call \in DetectCalls \cup StrongCalls \cup BuildCalls
    /\ ret = <<>>

ApplyDetectAspects ==
    /\ call.fn = "detect_aspects"
    /\ ret = <<>>
    /\ ret' = <<detect_aspects(call.text, call.max_aspects)>>
    /\ UNCHANGED <<pipeVars, call>>

ApplyIsStrongNegative ==
    /\ call.fn = "is_strong_negative"
    /\ ret = <<>>
    /\ ret' = <<is_strong_negative(call.text)>>
    /\ UNCHANGED <<pipeVars, call>>

ApplyBuildTemplateReply ==
    /\ call.fn = "build_template_reply"
    /\ ret = <<>>
    /\ ret' = <<build_template_reply(call.review, call.sentiment, call.aspects,
                                     call.customer_name)>>
    /\ UNCHANGED <<pipeVars, call>>

FnNext ==
    \/ ApplyDetectAspects
    \/ ApplyIsStrongNegative
    \/ ApplyBuildTemplateReply

SpecFn == FnInit /\ [][FnNext]_vars

\* The call of the harness has returned.
Returned(fn) == call.fn = fn /\ ret # <<>>

-----------------------------------------------------------------------------
\* Vocabulary of the properties.

StartsWith(s, prefix) == Len(prefix) <= Len(s) /\ SubSeq(s, 1, Len(prefix)) = prefix
EndsWith(s, suffix) ==
    Len(suffix) <= Len(s) /\ SubSeq(s, Len(s) - Len(suffix) + 1, Len(s)) = suffix

Range(seq) == {seq[i] : i \in 1..Len(seq)}
Categories == Range(AspectOrder)
EnumerationIndex(a) == CHOOSE i \in 1..Len(AspectOrder) : AspectOrder[i] = a

\* The number of distinct keywords of category a that occur in the lowercased text.
HitCount(a, text) ==
    Cardinality({kw \in Range(ASPECT_KEYWORDS[a]) : Contains(kw, Lower(text))})
HitCategories(text) == {a \in Categories : HitCount(a, text) > 0}

\* a ranks before b: more hits, or as many and earlier in the enumeration.
RanksBefore(a, b, text) ==
    \/ HitCount(a, text) > HitCount(b, text)
    \/ HitCount(a, text) = HitCount(b, text) /\ EnumerationIndex(a) < EnumerationIndex(b)

\* Some term of the strong-negative lexicon occurs in the text, whatever its case.
HasStrongTerm(text) == \E term \in Range(NEG_STRONG_TERMS) : Contains(term, Lower(text))

ExpectedLabels == {"positive", "neutral", "negative"}
Salutation(name) ==
    IF name # <<>> /\ name[1] # "" THEN "Hi " \o name[1] \o "," ELSE "Hi there,"
Closing(label) ==
    CASE label = "positive" -> "Warm thanks, SteamNoodles Team"
      [] label = "neutral" -> "Kind regards, SteamNoodles Team"
      [] label = "negative" -> "Sincerely, SteamNoodles Support"

\* The reply a request owes to its own inputs and the classifier alone.
OwnTemplateReply(review_text, customer_name) ==
    build_template_reply(review_text, SentimentResult(classifier[review_text]),
                         detect_aspects(review_text, DEFAULT_MAX_ASPECTS), customer_name)

\* The requests without generation whose final reply is known: printed, or about
\* to be.
FinishedWithoutGeneration ==
    {[review_text |-> e.review_text, customer_name |-> e.customer_name,
      reply |-> e.reply] : e \in {x \in stdout : ~x.use_local_generation}}
    \cup {[review_text |-> frame[t].review_text, customer_name |-> frame[t].customer_name,
           reply |-> frame[t].reply_final[1]] :
             t \in {u \in Threads : frame[u].pc = "print" /\ ~frame[u].use_local_generation}}

-----------------------------------------------------------------------------
\* C1: each of the two handles is constructed at most once, also when concurrent
\* requests both make the first use of it.
C1_HandlesConstructedAtMostOnce == sent_ctor <= 1 /\ gen_ctor <= 1

\* C2: without generation the final reply is the draft itself, and while no
\* request has asked for generation the generator is neither called nor built.
C2_DisabledIsPassThrough ==
    /\ \A t \in Threads :
          frame[t].pc = "print" /\ ~frame[t].use_local_generation
             => frame[t].reply_base # <<>> /\ frame[t].reply_final = frame[t].reply_base
    /\ ~ever_enabled => gen_calls = 0 /\ gen_ctor = 0 /\ gen_pipe = 0

C2_Witness ==
    /\ ~ever_enabled
    /\ submitted = MaxRequests
    /\ stdout # {}
    /\ \E t \in Threads : frame[t].pc = "print" /\ frame[t].reply_final = frame[t].reply_base

\* C3: a label outside positive, neutral, negative does not get the
\* negative-apology reply.
C3_UnknownLabelNotApology ==
    Returned("build_template_reply") /\ call.sentiment.label \notin ExpectedLabels
       => ~(/\ Contains("sorry that your experience", ret[1])
            /\ EndsWith(ret[1], "Sincerely, SteamNoodles Support"))

\* C4: for max_aspects >= 0 the result of detect_aspects is never empty, and it is
\* the one sentinel when no keyword occurs in the lowercased text.
C4_NeverEmptySentinel ==
    Returned("detect_aspects") /\ call.max_aspects >= 0
       => /\ ret[1] # <<>>
          /\ HitCategories(call.text) = {} => ret[1] = <<NO_ASPECT>>

C4_Witness ==
    /\ Returned("detect_aspects")
    /\ call.max_aspects >= 0
    /\ call.text # ""
    /\ HitCategories(call.text) = {}
    /\ ret[1] = <<NO_ASPECT>>

\* C5: with a hit and max_aspects >= 1 the result is the first min(max_aspects, k)
\* of the k categories that have hits, ranked by hit count descending and, among
\* equal counts, by enumeration order.
C5_TopRankedCategories ==
    Returned("detect_aspects") /\ call.max_aspects >= 1 /\ HitCategories(call.text) # {}
       => LET r == ret[1]
              hit == HitCategories(call.text)
          IN /\ Len(r) = Min(call.max_aspects, Cardinality(hit))
             /\ Len(r) <= call.max_aspects
             /\ \A i \in 1..Len(r) : r[i] \in hit
             /\ \A i, j \in 1..Len(r) : i < j => RanksBefore(r[i], r[j], call.text)
             /\ \A a \in hit \ Range(r) : \A i \in 1..Len(r) : RanksBefore(r[i], a, call.text)

C5_Witness ==
    /\ Returned("detect_aspects")
    /\ call.max_aspects = 2
    /\ Cardinality(HitCategories(call.text)) >= 3
    /\ \E a \in HitCategories(call.text) \ Range(ret[1]) :
          HitCount(a, call.text) = HitCount(ret[1][2], call.text)
    /\ EnumerationIndex(ret[1][1]) > EnumerationIndex(ret[1][2])

\* C6: with generation enabled and no marker in the generated text, the final
\* reply is not empty.
C6_MarkerAbsentNonEmpty ==
    \A t \in Threads :
        /\ frame[t].pc = "print"
        /\ frame[t].use_local_generation
        /\ ~Contains(MARKER, frame[t].out[1])
        => frame[t].reply_final[1] # ""

\* C7, in every state: what has been printed states the classifier's own top
\* label and score for the text and, without generation, the reply owed to the
\* request's inputs alone; nothing is made up in place of a failed call.
C7_NothingFabricated ==
    \A e \in stdout :
        /\ e.label = SentimentResult(classifier[e.review_text]).label
        /\ e.confidence = SentimentResult(classifier[e.review_text]).confidence
        /\ ~e.use_local_generation
              => e.reply = OwnTemplateReply(e.review_text, e.customer_name)

\* C7, in every step: when a request ends with an exception, its frame is gone,
\* nothing is printed, and both handles and the other requests stay as they were.
C7_RaiseStep ==
    \A t \in Threads :
        frame[t].pc # "raised" /\ frame'[t].pc = "raised"
           => /\ frame'[t] = [NoFrame EXCEPT !.pc = "raised"]
              /\ stdout' = stdout
              /\ sentiment_pipe' = sentiment_pipe
              /\ gen_pipe' = gen_pipe
              /\ \A u \in Threads \ {t} : frame'[u] = frame[u]

\* C7: a capability call that raises ends its request with the error and no
\* output, leaves the cached handles alone, and later requests are answered as
\* without it.
C7_FailurePropagatesCleanly == []C7_NothingFabricated /\ [][C7_RaiseStep]_vars

\* A thread whose first request raised at a capability call is about to print the
\* reply of its next request.
C7_Witness ==
    \E t \in Threads :
        /\ frame[t].pc = "print"
        /\ sentiment_pipe # 0
        /\ stdout = {}
        /\ submitted >= 2
        /\ \A u \in Threads \ {t} : frame[u].pc = "idle"

\* C8: the severity flag changes the reply of the negative branch only, where the
\* apology is the intensified one exactly if a strong-negative term occurs in the
\* text, whatever its case.
C8_SeverityOnlyInNegative ==
    Returned("build_template_reply") =>
        LET label == call.sentiment.label
        IN /\ label \in {"positive", "neutral"} =>
                /\ \A term \in Range(NEG_STRONG_TERMS) :
                      build_template_reply(call.review \o " " \o term, call.sentiment,
                                           call.aspects, call.customer_name) = ret[1]
                /\ build_template_reply("", call.sentiment, call.aspects,
                                        call.customer_name) = ret[1]
           /\ label = "negative" =>
                IF HasStrongTerm(call.review)
                THEN StartsWith(ret[1], Salutation(call.customer_name)
                                        \o " We're truly sorry that your experience")
                ELSE StartsWith(ret[1], Salutation(call.customer_name)
                                        \o " We're sorry that your experience")

C8_Witness ==
    /\ Returned("build_template_reply")
    /\ call.sentiment.label = "negative"
    /\ HasStrongTerm(call.review)
    /\ ~(\E term \in Range(NEG_STRONG_TERMS) : Contains(term, call.review))
    /\ Contains("truly", ret[1])

\* C9: for the three labels the reply is salutation and body, a blank line, and
\* the closing of the label; the salutation names a non-empty name, and the body
\* holds the aspects joined by ", " in their order.
C9_ReplyLayout ==
    Returned("build_template_reply") /\ call.sentiment.label \in ExpectedLabels =>
        LET r == ret[1]
            salutation == Salutation(call.customer_name)
            tail == "\n\n" \o Closing(call.sentiment.label)
            body == SubSeq(r, Len(salutation) + 1, Len(r) - Len(tail))
        IN /\ Len(r) >= Len(salutation) + Len(tail)
           /\ StartsWith(r, salutation)
           /\ EndsWith(r, tail)
           /\ Contains(Join(", ", call.aspects), body)
           /\ ~Contains("\n", body)

C9_Witness ==
    /\ Returned("build_template_reply")
    /\ call.sentiment.label = "positive"
    /\ call.customer_name = <<"Alice">>
    /\ call.aspects = <<"service", "food">>
    /\ StartsWith(ret[1], "Hi Alice, thank you")
    /\ Contains("enjoyed the service, food.", ret[1])

\* C10: requests without generation that have the same text and name get the
\* same final reply, whatever else has run before, between or beside them.
C10_SameInputsSameReply ==
    \A a, b \in FinishedWithoutGeneration :
        a.review_text = b.review_text /\ a.customer_name = b.customer_name
           => a.reply = b.reply

\* A request is about to print its reply when the same inputs have been answered
\* before and another request has been answered as well.
C10_Witness ==
    \E t \in Threads :
        /\ frame[t].pc = "print"
        /\ ~frame[t].use_local_generation
        /\ \E e \in stdout :
              /\ ~e.use_local_generation
              /\ e.review_text = frame[t].review_text
              /\ e.customer_name = frame[t].customer_name
        /\ \E e \in stdout : e.review_text # frame[t].review_text

====
